---- MODULE Spec2Model ----
(***************************************************************************)
(* Connection/session lifecycle controller of the WhatsApp bot             *)
(* (class WhatsAppBot).  Two variants of the controller are in the         *)
(* repository: index.js ("index") and its near-duplicate "index (1).js"    *)
(* ("index1").  A run of the model is a run of one of them.                 *)
(*                                                                         *)
(* JavaScript runs a handler to its next await.  The await on              *)
(* requestPairingCode is a suspension point and its continuation is a      *)
(* separate step.  The await on clearSessionData (synchronous fs calls     *)
(* only) resumes in a microtask and is taken together with the code that   *)
(* follows it.  connectToWhatsApp changes no field of the controller       *)
(* before makeWASocket returns; it is one step, taken when the socket is   *)
(* created.                                                                *)
(***************************************************************************)
EXTENDS Integers, Sequences, FiniteSets

VARIABLES
    variant,            \* which source file runs: "index" or "index1"
    envPhone,           \* process.env.PHONE_NUMBER (<<>> when unset)
    fsFaults,           \* whether fs calls may throw in this run
    proc,               \* "running" or "exited"
    sock,               \* this.sock: 0 null, 1..MaxLoad live, Dead closed
    hs,                 \* transport handles created by makeWASocket
    session,            \* persisted session folder
    qrRetries,          \* this.qrRetries
    connectionAttempts, \* this.connectionAttempts
    timers,             \* pending setTimeout callbacks, by kind
    pairing,            \* requestPairingCode calls in flight, by socket
    pairingDelay,       \* index1: generatePairingCode calls in the 3 s wait
    last,               \* the handler step taken last and what it did
    visibility,         \* visibilityManager: publicCommands, privateCommands
    registered,         \* commandManager.commands: name to the handler it has
    importedCommands,   \* dynamicImporter.importedCommands: the names in it
    tempFiles,          \* temp_*.js files in the plugins folder
    pendingImports,     \* global.pendingImports: sender to the pending entry
    cleanups,           \* pending setTimeout callbacks of importcmd
    rateLimit,          \* commandManager.rateLimit: user to count and resetTime
    admitted,           \* per user, the times of the calls the rate limit let pass
    now                 \* Date.now(), in units of the model

vars == <<variant, envPhone, fsFaults, proc, sock, hs, session, qrRetries,
          connectionAttempts, timers, pairing, pairingDelay, last, visibility,
          registered, importedCommands, tempFiles, pendingImports, cleanups,
          rateLimit, admitted, now>>

(* The state of the command tools (dynamicImporter, importcmd, rate limit) *)
toolVars == <<registered, importedCommands, tempFiles, pendingImports, cleanups,
              rateLimit, admitted, now>>

----------------------------------------------------------------------------
(* Bound of the model: how many sockets, pending timers and pairing       *)
(* requests in flight there are at a time, all together.                   *)
MaxLoad == 3

(* Bounds of the model: how many sockets are live at a time, and how many  *)
(* messages a messages.upsert batch carries.                               *)
MaxSockets == 2
MaxBatch == 2

(* Bound of the model: the largest attempt count the delay computations    *)
(* are applied to on their own.                                            *)
MaxAttempt == 20

(* Bound of the model: the most digits after the prefix in the phone       *)
(* numbers the normalization is applied to on its own.                     *)
MaxPhoneBody == 11

(* Bound of the model: the most files in the session folder when            *)
(* clearSessionData is applied on its own.                                  *)
MaxFiles == 4

(* Program constants *)
maxQrRetries == 5
maxConnectionAttempts == 10

Variants == {"index", "index1"}
Handles == 1..MaxSockets
Dead == 0 - 1
TimerKinds == {"reconnect", "fresh", "restart", "pairing"}
ReconnectKinds == {"reconnect", "fresh", "restart"}
PairRefs == Handles \cup {Dead}

(* Reason texts of lastDisconnect.error.message, as the set of markers    *)
(* the text contains.                                                      *)
Reasons == { {}, {"Connection Failure"}, {"401"}, {"ECONNRESET"}, {"ETIMEDOUT"} }

(* messages.upsert batches: for each message, key.fromMe *)
Batches == UNION { [1..n -> BOOLEAN] : n \in 1..MaxBatch }

(* Phone numbers are sequences of characters.                              *)
Digits == {"0", "1", "2", "3", "4", "5", "6", "7", "8", "9"}
DefaultPhone == <<"2","7","6","8","3","9","1","3","7","1","6">>
EnvPhones == { <<>>, <<"1","2","3">> }

----------------------------------------------------------------------------
(* Commands and their visibility (utils/commands.js, visibilityManager.js, *)
(* plugins/enhanced-admin-tools.js).  A sender is taken by the role they   *)
(* hold.                                                                   *)
Roles == {"user", "admin", "owner"}
Rank == [user |-> 1, admin |-> 2, owner |-> 3]

(* commandManager.commands: name to required role *)
commands == [ping |-> "user", menu |-> "user", status |-> "admin",
             addadmin |-> "owner", zushi |-> "owner", ope |-> "admin",
             visibility |-> "admin"]
CommandNames == DOMAIN commands

(* Arguments of a command: a command name, or the sub-command reset *)
CommandArgs == CommandNames \cup {"reset"}

defaultPublicCommands == {"ping", "menu"}
defaultVisibility ==
    [publicCommands |-> defaultPublicCommands, privateCommands |-> {}]

(* roleManager.hasPermission: the three-tier role system, Owner over Admin *)
(* over User.                                                              *)
hasPermission(sender, role) == Rank[sender] >= Rank[role]

isPublic(commandName) == commandName \in visibility.publicCommands

(* A makePublic that leaves the command in the private set *)
makePublic_keepsPrivate(commandName) ==
    [visibility EXCEPT !.publicCommands = @ \cup {commandName}]

makePublic(commandName) ==
    [publicCommands |-> visibility.publicCommands \cup {commandName},
     privateCommands |-> visibility.privateCommands \ {commandName}]

(* A makePrivate without the guard of the default public commands *)
makePrivate_unguarded(commandName) ==
    [publicCommands |-> visibility.publicCommands \ {commandName},
     privateCommands |-> visibility.privateCommands \cup {commandName}]

makePrivate(commandName) ==
    IF commandName \in defaultPublicCommands THEN visibility
    ELSE [publicCommands |-> visibility.publicCommands \ {commandName},
          privateCommands |-> visibility.privateCommands \cup {commandName}]

(* CommandManager.canAccessCommand: a public command is open to everybody  *)
(* unless its role is admin or owner; every other case asks the role.      *)
canAccessCommand(sender, commandName) ==
    IF isPublic(commandName)
    THEN IF commands[commandName] \in {"admin", "owner"}
         THEN hasPermission(sender, commands[commandName])
         ELSE TRUE
    ELSE hasPermission(sender, commands[commandName])

(* The handler of a command: zushi makes its argument public, ope makes    *)
(* it private, visibility reset restores the defaults; the other handlers  *)
(* leave the visibility alone.                                             *)
handler(commandName, arg) ==
    IF commandName = "zushi" /\ arg \in CommandNames THEN makePublic(arg)
    ELSE IF commandName = "ope" /\ arg \in CommandNames THEN makePrivate(arg)
    ELSE IF commandName = "visibility" /\ arg = "reset" THEN defaultVisibility
    ELSE visibility

----------------------------------------------------------------------------
(* Importing commands (utils/dynamicImporter.js, the importcmd and cmdlist *)
(* commands of plugins/enhanced-admin-tools.js).  A command name is the    *)
(* sequence of its characters.                                             *)
MaxTemp == 1        \* temp files left in the plugins folder
MaxTime == 6        \* the clock runs from 0 to MaxTime
MaxCleanups == 2    \* pending cleanup timers of importcmd

(* String.prototype.toLowerCase on the capital letters used *)
Capitals == [P |-> "p", C |-> "c"]
toLowerCase(s) ==
    [i \in 1..Len(s) |-> IF s[i] \in DOMAIN Capitals THEN Capitals[s[i]] ELSE s[i]]

(* the characters of [a-z0-9] used *)
AlphaNum == {"p", "i", "n", "g", "c", "a", "l", "4"}

(* commandName.toLowerCase().replace(/[^a-z0-9]/g, '') *)
sanitizedName(commandName) ==
    SelectSeq(toLowerCase(commandName), LAMBDA ch : ch \in AlphaNum)

(* args[0] of importcmd: ping, Ping, pi-ng, calc, Calc!, c4 and - *)
RawNames ==
    { <<"p", "i", "n", "g">>, <<"P", "i", "n", "g">>, <<"p", "i", "-", "n", "g">>,
      <<"c", "a", "l", "c">>, <<"C", "a", "l", "c", "!">>, <<"c", "4">>, <<"-">> }

(* The names a command can be registered under *)
TableNames == { sanitizedName(r) : r \in RawNames } \ {<<>>}

(* registerDefaultCommands: ping is in the table from the start *)
builtinCommands == { <<"p", "i", "n", "g">> }

(* What the table holds for a name: nothing, the handler the bot came      *)
(* with, or the handler of an imported module (by the id of its code).     *)
CodeIds == {"code1", "code2"}
Handlers == {"none", "builtin"} \cup CodeIds

(* commandCodeOrUrl: src "empty" (a falsy value), "code" (the text) or     *)
(* "url" (fetched says whether fetchFromUrl resolved); of the text:        *)
(* exports and handlerText whether it includes 'exports' and 'handler',    *)
(* dangerous whether it includes one of dangerousFunctions; of the module: *)
(* loads whether require returns, handlerFn whether it is an object with a *)
(* handler function (the module of a text that fails the validation or    *)
(* was not fetched is never loaded); id tells two handlers apart.          *)
Codes ==
    { c \in [src : {"empty", "code", "url"}, fetched : BOOLEAN, exports : BOOLEAN,
             handlerText : BOOLEAN, dangerous : BOOLEAN, loads : BOOLEAN,
             handlerFn : BOOLEAN, id : CodeIds] :
        /\ c.src # "url" => c.fetched
        /\ (c.src = "empty" \/ ~c.fetched) =>
              (~c.exports /\ ~c.handlerText /\ ~c.dangerous)
        /\ (~c.exports \/ ~c.handlerText \/ c.dangerous) => ~c.loads
        /\ c.handlerFn => c.loads
        /\ c.id = "code2" => c.handlerFn }

(* DynamicImporter.validateCommandStructure *)
validateCommandStructure(commandCode) ==
    /\ commandCode.exports
    /\ commandCode.handlerText
    /\ ~commandCode.dangerous

(* commandManager.commands.has(name) *)
has(name) == name \in TableNames /\ registered[name] # "none"

(* The result of a call of importCommand: the table, importedCommands and  *)
(* the number of temp files afterwards, result.success, and whether an     *)
(* exception left the call.                                                *)
ImportResult(reg, imp, temp, success) ==
    [registered |-> reg, importedCommands |-> imp, tempFiles |-> temp,
     success |-> success, thrown |-> FALSE]

(* DynamicImporter.importCommand.  The early returns leave everything as   *)
(* it was.  writeFileSync is outside the inner try: when it throws, the    *)
(* outer catch returns the failure, with no file (the open failed) or with *)
(* the file (the write failed).  In the inner try, a module that does not  *)
(* load or has no handler function throws; otherwise the command is        *)
(* registered and recorded.  The finally block unlinks the file; when      *)
(* unlinkSync throws, its exception replaces the result of the try block   *)
(* and the outer catch returns the failure.                                *)
importCommand(commandCode, commandName) ==
    LET name == sanitizedName(commandName)
        unchanged(temp) == ImportResult(registered, importedCommands, temp, FALSE)
        reg2 == [registered EXCEPT ![name] = commandCode.id]
        imp2 == importedCommands \cup {name}
    IN
    IF commandCode.src = "empty" \/ commandName = <<>> THEN { unchanged(tempFiles) }
    ELSE IF ~commandCode.fetched THEN { unchanged(tempFiles) }
    ELSE IF name = <<>> THEN { unchanged(tempFiles) }
    ELSE IF ~validateCommandStructure(commandCode) THEN { unchanged(tempFiles) }
    ELSE (IF fsFaults THEN { unchanged(tempFiles), unchanged(tempFiles + 1) } ELSE {})
         \cup
         (IF ~commandCode.loads \/ ~commandCode.handlerFn
          THEN { unchanged(tempFiles) }
               \cup (IF fsFaults THEN { unchanged(tempFiles + 1) } ELSE {})
          ELSE { ImportResult(reg2, imp2, tempFiles, TRUE) }
               \cup (IF fsFaults
                     THEN { ImportResult(reg2, imp2, tempFiles + 1, FALSE) }
                     ELSE {}))

(* A removal that takes the command out of the table and leaves it in      *)
(* importedCommands.                                                       *)
removeImportedCommand_tableOnly(commandName) ==
    IF commandName \in importedCommands
    THEN [registered |-> [registered EXCEPT ![commandName] = "none"],
          importedCommands |-> importedCommands, removed |-> TRUE]
    ELSE [registered |-> registered, importedCommands |-> importedCommands,
          removed |-> FALSE]

(* DynamicImporter.removeImportedCommand: the table and importedCommands   *)
(* afterwards and the value returned.                                      *)
removeImportedCommand(commandName) ==
    IF commandName \in importedCommands
    THEN [registered |-> [registered EXCEPT ![commandName] = "none"],
          importedCommands |-> importedCommands \ {commandName},
          removed |-> TRUE]
    ELSE [registered |-> registered, importedCommands |-> importedCommands,
          removed |-> FALSE]

(* Pending manual imports: the senders, the entry of a sender (NoPending   *)
(* when the map has none), 5 minutes in the minutes of the clock.          *)
Senders == {"owner", "owner2"}
NoPending == [commandName |-> <<>>, timestamp |-> 0 - 1]
pendingTtl == 5

(* Rate limiting (utils/commands.js, config.js): RATE_LIMIT_MAX and        *)
(* RATE_LIMIT_WINDOW as set in the environment, the users, the entry of a  *)
(* user (NoLimit when the map has none).                                   *)
RATE_LIMIT_MAX == 2
RATE_LIMIT_WINDOW == 2
Users == {"user1", "user2"}
NoLimit == [count |-> 0 - 1, resetTime |-> 0 - 1]

(* The command tools before the first command *)
ToolsStart ==
    /\ registered = [n \in TableNames |-> IF n \in builtinCommands THEN "builtin" ELSE "none"]
    /\ importedCommands = {}
    /\ tempFiles = 0
    /\ pendingImports = [s \in Senders |-> NoPending]
    /\ cleanups = {}
    /\ rateLimit = [u \in Users |-> NoLimit]
    /\ admitted = [u \in Users |-> <<>>]
    /\ now = 0

----------------------------------------------------------------------------
(* Bags as functions to counts *)
BagSize(b) ==
    LET RECURSIVE Sum(_)
        Sum(S) == IF S = {} THEN 0
                  ELSE LET x == CHOOSE y \in S : TRUE IN b[x] + Sum(S \ {x})
    IN Sum(DOMAIN b)
BagAdd(b, x) == [b EXCEPT ![x] = @ + 1]
BagDel(b, x) == [b EXCEPT ![x] = @ - 1]

(* A handle: st "free" (no such socket), "connecting", "pairing" (a QR     *)
(* was emitted), "coded" (a pairing code was issued on it), "open";        *)
(* reg: its credentials are those of a registered device.                  *)
FreeHandle == [st |-> "free", reg |-> FALSE]
Live(h) == hs[h].st # "free"

LiveCount == Cardinality({h \in Handles : Live(h)})

(* Room for one more timer or request, next to the pending timers tm, the  *)
(* requests in flight pr, the pd calls in their wait and the live sockets. *)
Room(tm, pr, pd) == LiveCount + BagSize(tm) + BagSize(pr) + pd < MaxLoad

(* What the last step did: op the handler or the branch of                 *)
(* generatePairingCode taken; for a close, lo (logged-out status code) and *)
(* mk (the kinds of marker in the reason text); delay of the timer it set; *)
(* clr whether it called clearSessionData; pre, for an open, whether a     *)
(* retry counter was not 0 before it and, for a close, whether the socket  *)
(* was open; phone the number passed to requestPairingCode; for a batch of *)
(* messages, disp the most calls of processMessage any one message got,    *)
(* own whether a message of the bot itself was dispatched and skipped      *)
(* whether a message of somebody else was not.                             *)
(* by is "qr" for a requestPairingCode that the handler of a qr update is  *)
(* awaiting (index.js).                                                    *)
(* For a call of clearSessionData on its own, same whether it left the     *)
(* folder as it was and err whether an exception left the call.            *)
(* For an executed command, cmd its name, sender the role of the sender,   *)
(* pub whether the command was public and granted whether canAccessCommand *)
(* let it through.                                                         *)
(* For a call of the command tools, name the command name passed and ok    *)
(* the value it returned (result.success of an import).                    *)
(* Steps that are no handler of the controller leave NoLast.               *)
NoLast == [op |-> "none", lo |-> FALSE, mk |-> {}, delay |-> 0,
           clr |-> FALSE, pre |-> FALSE, phone |-> <<>>,
           disp |-> 0, own |-> FALSE, skipped |-> FALSE, by |-> "",
           same |-> FALSE, err |-> FALSE,
           cmd |-> "", sender |-> "", granted |-> FALSE, pub |-> FALSE,
           name |-> <<>>, ok |-> FALSE]
Note(op) == [NoLast EXCEPT !.op = op]

AuthMarkers == {"Connection Failure", "QR refs attempts ended", "401", "403"}
NetworkMarkers == {"ECONNRESET", "ETIMEDOUT"}
MarkerKinds(reason) ==
    (IF reason \cap AuthMarkers # {} THEN {"auth"} ELSE {})
    \cup (IF reason \cap NetworkMarkers # {} THEN {"network"} ELSE {})

----------------------------------------------------------------------------
(* config.PHONE_NUMBER: process.env.PHONE_NUMBER || '27683913716' *)
PHONE_NUMBER == IF envPhone = <<>> THEN DefaultPhone ELSE envPhone

StartsWith(s, p) == Len(s) >= Len(p) /\ SubSeq(s, 1, Len(p)) = p
OnlyDigits(s) == SelectSeq(s, LAMBDA c : c \in Digits)
Prefix27 == <<"2", "7">>

(* index.js: clean the number and apply the South African format rules *)
formatPhoneNumber_index(raw) ==
    LET p == OnlyDigits(raw) IN
    IF Len(p) = 10 /\ StartsWith(p, <<"0">>) THEN Prefix27 \o SubSeq(p, 2, Len(p))
    ELSE IF Len(p) = 9 /\ ~StartsWith(p, Prefix27) THEN Prefix27 \o p
    ELSE IF Len(p) = 11 /\ StartsWith(p, Prefix27) THEN p
    ELSE Prefix27 \o (IF StartsWith(p, Prefix27) THEN SubSeq(p, 3, Len(p)) ELSE p)

(* index.js: validate final format (11 digits starting with 27) *)
validPhoneNumber_index(p) == ~(Len(p) # 11 \/ ~StartsWith(p, Prefix27))

(* index (1).js: ensure South African format; there is no validation *)
formatPhoneNumber_index1(raw) ==
    LET p == OnlyDigits(raw) IN
    IF StartsWith(p, <<"0">>) THEN Prefix27 \o SubSeq(p, 2, Len(p))
    ELSE IF ~StartsWith(p, Prefix27) THEN Prefix27 \o p
    ELSE p

----------------------------------------------------------------------------
(* Classification of a disconnect *)
Includes(reason, marker) == marker \in reason

shouldReconnect_always(lo) == TRUE

shouldReconnect_never(lo) == FALSE

(* statusCode !== DisconnectReason.loggedOut *)
shouldReconnect(lo) == ~lo

(* index.js: isConnectionFailure || isQRFailure || isAuthFailure || isNetworkError *)
isFailure_index(reason) ==
    \/ Includes(reason, "Connection Failure")
    \/ Includes(reason, "QR refs attempts ended")
    \/ Includes(reason, "401") \/ Includes(reason, "403")
    \/ Includes(reason, "ECONNRESET") \/ Includes(reason, "ETIMEDOUT")

isFailure_index1_network(reason) ==
    \/ Includes(reason, "Connection Failure")
    \/ Includes(reason, "QR refs attempts ended")
    \/ Includes(reason, "401") \/ Includes(reason, "403")
    \/ Includes(reason, "ECONNRESET") \/ Includes(reason, "ETIMEDOUT")

(* index (1).js: isConnectionFailure || isQRFailure || isAuthFailure *)
isFailure_index1(reason) ==
    \/ Includes(reason, "Connection Failure")
    \/ Includes(reason, "QR refs attempts ended")
    \/ Includes(reason, "401") \/ Includes(reason, "403")

Min(a, b) == IF a < b THEN a ELSE b

(* Delays in milliseconds *)
failureRetryDelay_flat(attempts) == 3000

(* index.js: const delay = 5000 + (this.connectionAttempts * 3000) *)
failureRetryDelay(attempts) == 5000 + (attempts * 3000)

reconnectDelay_uncapped(attempts) == 5000 + (attempts * 2000)

(* const delay = Math.min(5000 + (this.connectionAttempts * 2000), 30000) *)
reconnectDelay(attempts) == Min(5000 + (attempts * 2000), 30000)

pairingRetryDelay_uncapped(retries) == 5000 * retries

(* const delay = Math.min(5000 * this.qrRetries, 15000) *)
pairingRetryDelay(retries) == Min(5000 * retries, 15000)

restartDelay == IF variant = "index" THEN 5000 ELSE 10000

----------------------------------------------------------------------------
(* The session folder: "none" no credentials, "paired" the credentials of  *)
(* a registered device, "partial" some of its files deleted.               *)
Sessions == {"none", "paired", "partial"}

(* clearSessionData: unlink every file of the folder; an fs error is       *)
(* caught and logged, leaving the files not yet unlinked.  The set of      *)
(* possible folder contents after the call.                                *)
clearSessionData(s) ==
    IF s = "none" THEN {"none"}
    ELSE {"none"} \cup (IF fsFaults THEN {s, "partial"} ELSE {})

loadRegistered_always(s) == {TRUE}

(* useMultiFileAuthState: whether the loaded credentials are registered *)
loadRegistered(s) ==
    IF s = "paired" THEN {TRUE}
    ELSE IF s = "partial" THEN {TRUE, FALSE}
    ELSE {FALSE}

----------------------------------------------------------------------------
(* generatePairingCode up to its first await or return.  tm: the pending   *)
(* timers when it is called: timers itself when the handler of a qr update *)
(* calls it, one timer less when a timer callback does.                    *)

pairingLimitReached_never(retries) == FALSE

(* if (this.qrRetries >= this.maxQrRetries) *)
pairingLimitReached(retries) == retries >= maxQrRetries

(* catch block of generatePairingCode *)
pairingCatch(tm) ==
    IF qrRetries < maxQrRetries
    THEN /\ Room(tm, pairing', pairingDelay')
         /\ timers' = BagAdd(tm, "pairing")
         /\ UNCHANGED session
         /\ last' = [Note("retry") EXCEPT !.delay = pairingRetryDelay(qrRetries)]
    ELSE /\ \E s2 \in clearSessionData(session) : session' = s2
         /\ timers' = tm
         /\ last' = [Note("giveup") EXCEPT !.clr = TRUE]

(* if (this.qrRetries >= this.maxQrRetries): clear and restart later *)
pairingLimit(tm) ==
    /\ Room(tm, pairing, pairingDelay)
    /\ \E s2 \in clearSessionData(session) : session' = s2
    /\ timers' = BagAdd(tm, "restart")
    /\ UNCHANGED <<qrRetries, pairing, pairingDelay>>
    /\ last' = [Note("limit") EXCEPT !.clr = TRUE, !.delay = restartDelay]

generatePairingCode_index(tm) ==
    IF PHONE_NUMBER = <<>>
    THEN /\ timers' = tm
         /\ UNCHANGED <<qrRetries, session, pairing, pairingDelay>>
         /\ last' = Note("nophone")
    ELSE IF pairingLimitReached(qrRetries)
    THEN pairingLimit(tm)
    ELSE LET phoneNumber == formatPhoneNumber_index(PHONE_NUMBER) IN
         /\ qrRetries' = qrRetries + 1
         /\ UNCHANGED <<session, pairingDelay>>
         /\ IF ~validPhoneNumber_index(phoneNumber)
            THEN /\ timers' = tm
                 /\ UNCHANGED pairing
                 /\ last' = [Note("invalid") EXCEPT !.phone = phoneNumber]
            ELSE IF sock = 0
            THEN /\ Room(tm, pairing, pairingDelay)
                 /\ timers' = BagAdd(tm, "reconnect")
                 /\ UNCHANGED pairing
                 /\ last' = [Note("nosock") EXCEPT !.delay = 2000,
                                             !.phone = phoneNumber]
            ELSE /\ Room(tm, pairing, pairingDelay)
                 /\ pairing' = BagAdd(pairing, sock)
                 /\ timers' = tm
                 /\ last' = [Note("request") EXCEPT
                               !.phone = phoneNumber,
                               !.by = IF tm = timers THEN "qr" ELSE "timer"]

generatePairingCode_index1(tm) ==
    IF PHONE_NUMBER = <<>>
    THEN /\ timers' = tm
         /\ UNCHANGED <<qrRetries, session, pairing, pairingDelay>>
         /\ last' = Note("nophone")
    ELSE IF pairingLimitReached(qrRetries)
    THEN pairingLimit(tm)
    ELSE /\ qrRetries' = qrRetries + 1
         /\ Room(tm, pairing, pairingDelay)
         /\ pairingDelay' = pairingDelay + 1
         /\ timers' = tm
         /\ UNCHANGED <<session, pairing>>
         /\ last' = [Note("wait") EXCEPT !.phone = formatPhoneNumber_index1(PHONE_NUMBER)]

generatePairingCode(tm) ==
    IF variant = "index" THEN generatePairingCode_index(tm)
    ELSE generatePairingCode_index1(tm)

(* index (1).js: the 3 s wait is over; this.sock.requestPairingCode is     *)
(* called on the socket that is current now (a TypeError on null is        *)
(* caught by the catch block).                                             *)
PairingDelayDone ==
    /\ proc = "running" /\ pairingDelay > 0
    /\ pairingDelay' = pairingDelay - 1
    /\ IF sock = 0
       THEN /\ UNCHANGED pairing
            /\ pairingCatch(timers)
       ELSE /\ pairing' = BagAdd(pairing, sock)
            /\ UNCHANGED <<timers, session>>
            /\ last' = [Note("request") EXCEPT !.phone = formatPhoneNumber_index1(PHONE_NUMBER)]
    /\ UNCHANGED <<toolVars, visibility, variant, envPhone, fsFaults, proc, sock, hs, qrRetries,
                   connectionAttempts>>

(* requestPairingCode resolves with a code: the code and the instructions  *)
(* are printed.                                                            *)
PairingCodeIssued(x) ==
    /\ proc = "running" /\ pairing[x] > 0
    /\ x \in Handles /\ Live(x)
    /\ pairing' = BagDel(pairing, x)
    /\ hs' = [hs EXCEPT ![x].st = IF hs[x].reg THEN @ ELSE "coded"]
    /\ last' = Note("code")
    /\ UNCHANGED <<toolVars, visibility, variant, envPhone, fsFaults, proc, sock, session, qrRetries,
                   connectionAttempts, timers, pairingDelay>>

(* requestPairingCode rejects: the catch block runs *)
PairingCodeFailed(x) ==
    /\ proc = "running" /\ pairing[x] > 0
    /\ pairing' = BagDel(pairing, x)
    /\ UNCHANGED pairingDelay
    /\ pairingCatch(timers)
    /\ UNCHANGED <<toolVars, visibility, variant, envPhone, fsFaults, proc, sock, hs, qrRetries,
                   connectionAttempts>>

----------------------------------------------------------------------------
(* handleConnectionUpdate, connection === 'close'.  lo: the status code is *)
(* DisconnectReason.loggedOut; reason: the markers of the reason text;     *)
(* open: whether the closed socket had opened.                             *)

attemptsExhausted_late(attempts) == attempts > maxConnectionAttempts

(* if (this.connectionAttempts >= this.maxConnectionAttempts) *)
attemptsExhausted(attempts) == attempts >= maxConnectionAttempts

(* The generic branch with the increment before the delay computation *)
regularRetry_incrementFirst(open, lo, reason) ==
    LET attempts == connectionAttempts + 1
        delay == reconnectDelay(attempts)
    IN /\ IF attemptsExhausted(attempts)
          THEN /\ \E s2 \in clearSessionData(session) : session' = s2
               /\ connectionAttempts' = 0
               /\ qrRetries' = 0
          ELSE /\ connectionAttempts' = attempts
               /\ UNCHANGED <<session, qrRetries>>
       /\ timers' = BagAdd(timers, "reconnect")
       /\ last' = [Note("close") EXCEPT !.lo = lo, !.pre = open, !.mk = MarkerKinds(reason),
                       !.delay = delay,
                       !.clr = attemptsExhausted(attempts)]

(* Regular connection issue: retry with the existing session *)
regularRetry(open, lo, reason) ==
    LET delay == reconnectDelay(connectionAttempts)
        attempts == connectionAttempts + 1
    IN /\ IF attemptsExhausted(attempts)
          THEN /\ \E s2 \in clearSessionData(session) : session' = s2
               /\ connectionAttempts' = 0
               /\ qrRetries' = 0
          ELSE /\ connectionAttempts' = attempts
               /\ UNCHANGED <<session, qrRetries>>
       /\ timers' = BagAdd(timers, "reconnect")
       /\ last' = [Note("close") EXCEPT !.lo = lo, !.pre = open, !.mk = MarkerKinds(reason),
                       !.delay = delay,
                       !.clr = attemptsExhausted(attempts)]

(* index.js: network/auth failure *)
failureRetry_index(open, lo, reason) ==
    /\ IF connectionAttempts < 3
       THEN /\ timers' = BagAdd(timers, "reconnect")
            /\ UNCHANGED <<session, qrRetries, connectionAttempts>>
            /\ last' = [Note("close") EXCEPT !.lo = lo, !.pre = open, !.mk = MarkerKinds(reason),
                            !.delay = failureRetryDelay(connectionAttempts)]
       ELSE /\ \E s2 \in clearSessionData(session) : session' = s2
            /\ qrRetries' = 0
            /\ timers' = BagAdd(timers, "fresh")
            /\ UNCHANGED connectionAttempts
            /\ last' = [Note("close") EXCEPT !.lo = lo, !.pre = open, !.mk = MarkerKinds(reason),
                            !.delay = 2000, !.clr = TRUE]

(* index (1).js: authentication/connection failure *)
failureRetry_index1(open, lo, reason) ==
    /\ \E s2 \in clearSessionData(session) : session' = s2
    /\ qrRetries' = 0
    /\ timers' = BagAdd(timers, "reconnect")
    /\ UNCHANGED connectionAttempts
    /\ last' = [Note("close") EXCEPT !.lo = lo, !.pre = open, !.mk = MarkerKinds(reason),
                    !.delay = 3000, !.clr = TRUE]

(* A logged-out branch that invalidates the session and the counters *)
loggedOut_clears(open, lo, reason) ==
    /\ \E s2 \in clearSessionData(session) : session' = s2
    /\ qrRetries' = 0 /\ connectionAttempts' = 0
    /\ UNCHANGED timers
    /\ last' = [Note("close") EXCEPT !.lo = lo, !.pre = open, !.mk = MarkerKinds(reason),
                    !.clr = TRUE]

(* 'Bot logged out. Please restart to reconnect.' *)
loggedOut(open, lo, reason) ==
    /\ UNCHANGED <<session, qrRetries, connectionAttempts, timers>>
    /\ last' = [Note("close") EXCEPT !.lo = lo, !.pre = open, !.mk = MarkerKinds(reason)]

handleClose_index(open, lo, reason) ==
    IF shouldReconnect(lo)
    THEN IF isFailure_index(reason) THEN failureRetry_index(open, lo, reason)
         ELSE regularRetry(open, lo, reason)
    ELSE loggedOut(open, lo, reason)

handleClose_index1(open, lo, reason) ==
    IF shouldReconnect(lo)
    THEN IF isFailure_index1(reason) THEN failureRetry_index1(open, lo, reason)
         ELSE regularRetry(open, lo, reason)
    ELSE loggedOut(open, lo, reason)

(* The transport reports connection 'close' on handle h *)
ConnectionClose(h, lo, reason) ==
    /\ proc = "running" /\ Live(h)
    /\ hs' = [hs EXCEPT ![h] = FreeHandle]
    /\ sock' = IF sock = h THEN Dead ELSE sock
    /\ pairing' = [x \in PairRefs |->
                     IF x = h THEN 0
                     ELSE IF x = Dead THEN pairing[Dead] + pairing[h]
                     ELSE pairing[x]]
    /\ IF variant = "index" THEN handleClose_index(hs[h].st = "open", lo, reason)
       ELSE handleClose_index1(hs[h].st = "open", lo, reason)
    /\ UNCHANGED <<toolVars, visibility, variant, envPhone, fsFaults, proc, pairingDelay>>

resetCounters_qrOnly ==
    /\ qrRetries' = 0
    /\ UNCHANGED connectionAttempts

(* Reset retry counters on successful connection *)
resetCounters ==
    /\ qrRetries' = 0
    /\ connectionAttempts' = 0

(* handleConnectionUpdate, connection === 'open' *)
ConnectionOpen(h) ==
    /\ proc = "running"
    /\ hs[h].st \in {"connecting", "coded"} /\ hs[h].reg
    /\ hs' = [hs EXCEPT ![h].st = "open"]
    /\ resetCounters
    /\ last' = [Note("open") EXCEPT !.pre = (qrRetries # 0 \/ connectionAttempts # 0)]
    /\ UNCHANGED <<toolVars, visibility, variant, envPhone, fsFaults, proc, sock, session, timers,
                   pairing, pairingDelay>>

(* handleConnectionUpdate, update.qr set: pairing is required *)
ConnectionQr(h) ==
    /\ proc = "running"
    /\ hs[h].st \in {"connecting", "pairing", "coded"} /\ ~hs[h].reg
    /\ hs' = [hs EXCEPT ![h].st = IF @ = "coded" THEN @ ELSE "pairing"]
    /\ IF variant = "index"
       THEN generatePairingCode_index(timers)
       ELSE /\ Room(timers, pairing, pairingDelay)
            /\ timers' = BagAdd(timers, "pairing")
            /\ UNCHANGED <<qrRetries, session, pairing, pairingDelay>>
            /\ last' = [Note("qr") EXCEPT !.delay = 2000]
    /\ UNCHANGED <<toolVars, visibility, variant, envPhone, fsFaults, proc, sock, connectionAttempts>>

(* 'creds.update' -> saveCreds: the credentials of a registered device    *)
(* (registered before, or now that the pairing code was entered) are      *)
(* written to the session folder.                                          *)
CredsUpdate(h) ==
    /\ proc = "running" /\ Live(h)
    /\ hs[h].reg \/ hs[h].st = "coded"
    /\ hs' = [hs EXCEPT ![h].reg = TRUE]
    /\ session' = "paired"
    /\ last' = NoLast
    /\ UNCHANGED <<toolVars, visibility, variant, envPhone, fsFaults, proc, sock, qrRetries,
                   connectionAttempts, timers, pairing, pairingDelay>>

----------------------------------------------------------------------------
RECURSIVE dispatchLoop(_, _, _)

dispatchLoop_twice(messages, throwAt, i) ==
    [j \in 1..Len(messages) |-> IF messages[j] THEN 0 ELSE 2]

(* The loop of handleMessages from message i on: the number of calls of    *)
(* messageHandler.processMessage for each message. A message of the bot    *)
(* itself is skipped; when the processing of message throwAt throws, the   *)
(* catch around the loop ends the batch.                                   *)
dispatchLoop(messages, throwAt, i) ==
    IF i > Len(messages) THEN <<>>
    ELSE IF messages[i] THEN <<0>> \o dispatchLoop(messages, throwAt, i + 1)
    ELSE IF i = throwAt THEN <<1>> \o [j \in 1..(Len(messages) - i) |-> 0]
    ELSE <<1>> \o dispatchLoop(messages, throwAt, i + 1)

MaxOf(S) == CHOOSE n \in S : \A m \in S : m <= n

(* handleMessages, on a messages.upsert of socket h. The transport         *)
(* delivers messages on an open socket only. The handler writes no field   *)
(* of the bot, so its awaits are not modelled as steps of their own.       *)
handleMessages(h, messages, throwAt) ==
    /\ proc = "running" /\ hs[h].st = "open"
    /\ throwAt \in 0..Len(messages)
    /\ LET calls == dispatchLoop(messages, throwAt, 1)
           idx == 1..Len(messages)
       IN last' = [Note("messages") EXCEPT
                     !.disp = MaxOf({calls[j] : j \in idx}),
                     !.own = (\E j \in idx : messages[j] /\ calls[j] > 0),
                     !.skipped = (\E j \in idx : ~messages[j] /\ calls[j] = 0)]
    /\ UNCHANGED <<toolVars, visibility, variant, envPhone, fsFaults, proc, sock, hs, session, qrRetries,
                   connectionAttempts, timers, pairing, pairingDelay>>

----------------------------------------------------------------------------
LowestFree == CHOOSE h \in Handles : ~Live(h) /\ \A g \in Handles : g < h => Live(g)

(* connectToWhatsApp: the auth state is loaded, the socket is created and  *)
(* the handlers are registered on it.                                      *)
connectToWhatsApp ==
    /\ \E h \in Handles : ~Live(h)
    /\ \E r \in loadRegistered(session) :
          hs' = [hs EXCEPT ![LowestFree] = [st |-> "connecting", reg |-> r]]
    /\ sock' = LowestFree

(* bot.initialize() *)
initialize ==
    /\ proc = "running" /\ sock = 0
    /\ connectToWhatsApp
    /\ last' = NoLast
    /\ UNCHANGED <<toolVars, visibility, variant, envPhone, fsFaults, proc, session, qrRetries,
                   connectionAttempts, timers, pairing, pairingDelay>>

(* setTimeout(() => this.connectToWhatsApp(), delay) fires *)
ReconnectTimer ==
    /\ proc = "running" /\ timers["reconnect"] > 0
    /\ timers' = BagDel(timers, "reconnect")
    /\ connectToWhatsApp
    /\ last' = NoLast
    /\ UNCHANGED <<toolVars, visibility, variant, envPhone, fsFaults, proc, session, qrRetries,
                   connectionAttempts, pairing, pairingDelay>>

(* the timer of pairingLimit fires: this.qrRetries = 0; connectToWhatsApp() *)
RestartTimer_noReset ==
    /\ proc = "running" /\ timers["restart"] > 0
    /\ timers' = BagDel(timers, "restart")
    /\ UNCHANGED qrRetries
    /\ connectToWhatsApp
    /\ last' = Note("restart")
    /\ UNCHANGED <<toolVars, visibility, variant, envPhone, fsFaults, proc, session,
                   connectionAttempts, pairing, pairingDelay>>

RestartTimer ==
    /\ proc = "running" /\ timers["restart"] > 0
    /\ timers' = BagDel(timers, "restart")
    /\ qrRetries' = 0
    /\ connectToWhatsApp
    /\ last' = Note("restart")
    /\ UNCHANGED <<toolVars, visibility, variant, envPhone, fsFaults, proc, session,
                   connectionAttempts, pairing, pairingDelay>>

(* index.js: 'Starting fresh connection...': connect, then pair after 3 s *)
FreshTimer ==
    /\ proc = "running" /\ timers["fresh"] > 0
    /\ Room(timers, pairing, pairingDelay)
    /\ connectToWhatsApp
    /\ timers' = BagAdd(BagDel(timers, "fresh"), "pairing")
    /\ last' = NoLast
    /\ UNCHANGED <<toolVars, visibility, variant, envPhone, fsFaults, proc, session, qrRetries,
                   connectionAttempts, pairing, pairingDelay>>

(* setTimeout(() => this.generatePairingCode(), delay) fires *)
PairingTimer ==
    /\ proc = "running" /\ timers["pairing"] > 0
    /\ generatePairingCode(BagDel(timers, "pairing"))
    /\ UNCHANGED <<toolVars, visibility, variant, envPhone, fsFaults, proc, sock, hs,
                   connectionAttempts>>

(* process.exit: everything in memory is gone, the session folder stays; *)
(* op: "signal" from the SIGINT/SIGTERM handlers, "crash" from the catch   *)
(* of initialize and the unhandledRejection handler.                       *)
(* A process that exits with its timers still pending: what the exit      *)
(* would be if process.exit left the event loop running.                  *)
Exit_timersSurvive(op) ==
    /\ proc' = "exited"
    /\ last' = [Note(op) EXCEPT !.pre = BagSize(timers) > 0 /\ LiveCount > 0]
    /\ UNCHANGED <<toolVars, visibility, variant, envPhone, fsFaults, session, sock, hs, qrRetries,
                   connectionAttempts, timers, pairing, pairingDelay>>

(* last.pre records whether a timer was pending and a socket was live     *)
(* when the process exited.                                               *)
Exit(op) ==
    /\ proc' = "exited"
    /\ sock' = 0
    /\ hs' = [h \in Handles |-> FreeHandle]
    /\ qrRetries' = 0 /\ connectionAttempts' = 0
    /\ timers' = [k \in TimerKinds |-> 0]
    /\ pairing' = [x \in PairRefs |-> 0]
    /\ pairingDelay' = 0
    /\ last' = [Note(op) EXCEPT !.pre = BagSize(timers) > 0 /\ LiveCount > 0]
    /\ UNCHANGED <<toolVars, visibility, variant, envPhone, fsFaults, session>>

(* connectToWhatsApp throws (it logs and rethrows): the catch of           *)
(* initialize exits ("initfail"); in a timer callback the rejection is     *)
(* unhandled and the 'unhandledRejection' handler exits ("crash").         *)
ConnectFailed ==
    /\ proc = "running" /\ fsFaults
    /\ sock = 0 \/ \E k \in ReconnectKinds : timers[k] > 0
    /\ Exit(IF sock = 0 THEN "initfail" ELSE "crash")

(* SIGINT / SIGTERM *)
Shutdown ==
    /\ proc = "running"
    /\ Exit("signal")

----------------------------------------------------------------------------
Start ==
    /\ variant \in Variants
    /\ proc = "running"
    /\ sock = 0
    /\ hs = [h \in Handles |-> FreeHandle]
    /\ session \in {"none", "paired"}
    /\ qrRetries = 0
    /\ connectionAttempts = 0
    /\ timers = [k \in TimerKinds |-> 0]
    /\ pairing = [x \in PairRefs |-> 0]
    /\ pairingDelay = 0
    /\ last = NoLast
    /\ visibility = defaultVisibility
    /\ ToolsStart

(* The bot with PHONE_NUMBER unset (the default number) and a file system  *)
(* that does not fail.                                                     *)
Init ==
    /\ Start
    /\ envPhone = <<>>
    /\ fsFaults = FALSE

Next ==
    \/ initialize
    \/ \E h \in Handles : ConnectionQr(h)
    \/ \E h \in Handles : ConnectionOpen(h)
    \/ \E h \in Handles, lo \in BOOLEAN, reason \in Reasons : ConnectionClose(h, lo, reason)
    \/ \E h \in Handles : CredsUpdate(h)
    \/ \E h \in Handles, messages \in Batches, throwAt \in 0..MaxBatch :
          handleMessages(h, messages, throwAt)
    \/ \E x \in PairRefs : PairingCodeIssued(x)
    \/ \E x \in PairRefs : PairingCodeFailed(x)
    \/ PairingDelayDone
    \/ ReconnectTimer
    \/ RestartTimer
    \/ FreshTimer
    \/ PairingTimer
    \/ Shutdown

Spec == Init /\ [][Next]_vars

(* The same with the reconnect timers firing: while the process runs and   *)
(* a setTimeout that leads to connectToWhatsApp is pending, the event loop *)
(* of Node runs the callback of one.  Nothing is assumed of the pairing    *)
(* timers and of the transport.                                            *)
TimersFire == WF_vars(ReconnectTimer \/ RestartTimer \/ FreshTimer)

(* The steps that write a field of the bot or the session folder: all of   *)
(* Next but the handler of messages.upsert.                                *)
NextLifecycle ==
    \/ initialize
    \/ \E h \in Handles : ConnectionQr(h)
    \/ \E h \in Handles : ConnectionOpen(h)
    \/ \E h \in Handles, lo \in BOOLEAN, reason \in Reasons : ConnectionClose(h, lo, reason)
    \/ \E h \in Handles : CredsUpdate(h)
    \/ \E x \in PairRefs : PairingCodeIssued(x)
    \/ \E x \in PairRefs : PairingCodeFailed(x)
    \/ PairingDelayDone
    \/ ReconnectTimer
    \/ RestartTimer
    \/ FreshTimer
    \/ PairingTimer
    \/ Shutdown

SpecLive == Init /\ [][NextLifecycle]_vars /\ TimersFire

(* The same with a file system whose calls may throw *)
InitFaults ==
    /\ Start
    /\ envPhone = <<>>
    /\ fsFaults = TRUE

NextFaults == Next \/ ConnectFailed

SpecFaults == InitFaults /\ [][NextFaults]_vars

(* The same with PHONE_NUMBER set in the environment *)
InitPhone ==
    /\ Start
    /\ envPhone \in EnvPhones \ {<<>>}
    /\ fsFaults = FALSE

SpecPhone == InitPhone /\ [][Next]_vars

(* The delay computations on their own, applied to attempt counts from 0  *)
(* to MaxAttempt held in connectionAttempts and qrRetries.                 *)
InitDelay ==
    /\ variant = "index" /\ proc = "running" /\ sock = 0
    /\ envPhone = <<>> /\ fsFaults = FALSE
    /\ hs = [h \in Handles |-> FreeHandle]
    /\ session = "none"
    /\ qrRetries \in 0..MaxAttempt
    /\ connectionAttempts \in 0..MaxAttempt
    /\ timers = [k \in TimerKinds |-> 0]
    /\ pairing = [x \in PairRefs |-> 0]
    /\ pairingDelay = 0
    /\ last = NoLast
    /\ visibility = defaultVisibility
    /\ ToolsStart

(* Regular connection issue: the delay of the reconnect *)
ComputeReconnectDelay ==
    /\ last' = [Note("reconnectDelay") EXCEPT
                  !.delay = reconnectDelay(connectionAttempts)]
    /\ UNCHANGED <<toolVars, visibility, variant, envPhone, fsFaults, proc, sock, hs, session, qrRetries,
                   connectionAttempts, timers, pairing, pairingDelay>>

(* index.js, network/auth failure with connectionAttempts < 3: the delay   *)
(* of the reconnect                                                        *)
ComputeFailureDelay ==
    /\ connectionAttempts < 3
    /\ last' = [Note("failureDelay") EXCEPT
                  !.delay = failureRetryDelay(connectionAttempts)]
    /\ UNCHANGED <<toolVars, visibility, variant, envPhone, fsFaults, proc, sock, hs, session, qrRetries,
                   connectionAttempts, timers, pairing, pairingDelay>>

(* catch block of generatePairingCode: the delay of the retry *)
ComputePairingDelay ==
    /\ last' = [Note("pairingDelay") EXCEPT
                  !.delay = pairingRetryDelay(qrRetries)]
    /\ UNCHANGED <<toolVars, visibility, variant, envPhone, fsFaults, proc, sock, hs, session, qrRetries,
                   connectionAttempts, timers, pairing, pairingDelay>>

NextDelay ==
    \/ ComputeReconnectDelay
    \/ ComputeFailureDelay
    \/ ComputePairingDelay

SpecDelay == InitDelay /\ [][NextDelay]_vars

(* Phone normalization on its own, applied to PHONE_NUMBER values made of  *)
(* a prefix and the first digits of a subscriber number, and to "123".     *)
PhonePrefixes == { <<>>, <<"0">>, <<"2", "7">>, <<"+", "2", "7">>, <<"+", "2", "7", " ">>,
                   <<"0", "0", "2", "7">>, <<"2">> }
BodyDigits == <<"6","8","3","9","1","3","7","1","6","4","5","2","7">>
PhoneInputs ==
    ({ pre \o SubSeq(BodyDigits, 1, n) : pre \in PhonePrefixes, n \in 0..MaxPhoneBody }
       \cup { <<"1", "2", "3">> }) \ { <<>> }

(* index (1).js has no validation of the formatted number *)
validPhoneNumber(p) ==
    IF variant = "index" THEN validPhoneNumber_index(p) ELSE TRUE

formatPhoneNumber(raw) ==
    IF variant = "index" THEN formatPhoneNumber_index(raw)
    ELSE formatPhoneNumber_index1(raw)

InitFormat ==
    /\ variant \in Variants /\ proc = "running" /\ sock = 0
    /\ envPhone \in PhoneInputs /\ fsFaults = FALSE
    /\ hs = [h \in Handles |-> FreeHandle]
    /\ session = "none"
    /\ qrRetries = 0
    /\ connectionAttempts = 0
    /\ timers = [k \in TimerKinds |-> 0]
    /\ pairing = [x \in PairRefs |-> 0]
    /\ pairingDelay = 0
    /\ last = NoLast
    /\ visibility = defaultVisibility
    /\ ToolsStart

(* generatePairingCode from the formatting to the request: the formatted   *)
(* number is passed on ("accepted") or the call returns ("rejected").      *)
NormalizePhone ==
    /\ last.op = "none"
    /\ LET phoneNumber == formatPhoneNumber(PHONE_NUMBER) IN
         last' = [Note(IF validPhoneNumber(phoneNumber) THEN "accepted"
                       ELSE "rejected") EXCEPT !.phone = phoneNumber]
    /\ UNCHANGED <<toolVars, visibility, variant, envPhone, fsFaults, proc, sock, hs, session, qrRetries,
                   connectionAttempts, timers, pairing, pairingDelay>>

SpecFormat == InitFormat /\ [][NormalizePhone]_vars

(* clearSessionData on its own, on the session folder in detail: in this   *)
(* specification session holds the folder as a record, exists (existsSync),*)
(* files (the entries for which statSync(..).isFile() holds) and dirs (the *)
(* other entries).  A missing folder has no entries.                       *)
FileNames == 1..MaxFiles
SessionDirs ==
    { [exists |-> FALSE, files |-> {}, dirs |-> {}] }
      \cup [exists : {TRUE}, files : SUBSET FileNames, dirs : SUBSET {"d"}]

(* A clear that unlinks the first entry only *)
clearSessionData_firstOnly(sessionDir) ==
    IF ~sessionDir.exists \/ sessionDir.files = {}
    THEN { [dir |-> sessionDir, logged |-> FALSE, thrown |-> FALSE] }
    ELSE { [dir |-> [sessionDir EXCEPT !.files =
                        @ \ {CHOOSE x \in @ : \A y \in @ : x <= y}],
            logged |-> FALSE, thrown |-> FALSE] }

(* The outcomes of one call: the folder afterwards, whether the catch      *)
(* block logged an error, and whether an exception left the call.  Without *)
(* file-system errors every file is unlinked; an error thrown by           *)
(* readdirSync, statSync or unlinkSync leaves the files not yet unlinked   *)
(* and is caught.                                                          *)
clearSessionData_fs(sessionDir) ==
    IF ~sessionDir.exists
    THEN { [dir |-> sessionDir, logged |-> FALSE, thrown |-> FALSE] }
    ELSE { [dir |-> [sessionDir EXCEPT !.files = {}],
            logged |-> FALSE, thrown |-> FALSE] }
         \cup (IF fsFaults
               THEN { [dir |-> [sessionDir EXCEPT !.files = kept],
                       logged |-> TRUE, thrown |-> FALSE] :
                         kept \in (SUBSET sessionDir.files) \ {{}} }
                    \cup { [dir |-> sessionDir, logged |-> TRUE, thrown |-> FALSE] }
               ELSE {})

InitClear ==
    /\ variant \in Variants /\ proc = "running" /\ sock = 0
    /\ envPhone = <<>> /\ fsFaults \in BOOLEAN
    /\ hs = [h \in Handles |-> FreeHandle]
    /\ session \in SessionDirs
    /\ qrRetries = 0
    /\ connectionAttempts = 0
    /\ timers = [k \in TimerKinds |-> 0]
    /\ pairing = [x \in PairRefs |-> 0]
    /\ pairingDelay = 0
    /\ last = NoLast
    /\ visibility = defaultVisibility
    /\ ToolsStart

(* await this.clearSessionData(), a first and then a second time.          *)
(* last.pre: the folder had no file before the call; last.same: the call   *)
(* left the folder as it was; last.err: an exception left the call.        *)
ClearSessionData ==
    /\ last.op \in {"none", "clear"}
    /\ \E r \in clearSessionData_fs(session) :
          /\ session' = r.dir
          /\ last' = [Note(IF last.op = "none" THEN "clear" ELSE "clearAgain")
                        EXCEPT !.clr = TRUE,
                               !.pre = (session.files = {}),
                               !.same = (r.dir = session),
                               !.err = r.thrown]
    /\ UNCHANGED <<toolVars, visibility, variant, envPhone, fsFaults, proc, sock, hs, qrRetries,
                   connectionAttempts, timers, pairing, pairingDelay>>

SpecClear == InitClear /\ [][ClearSessionData]_vars

(* The commands on their own: senders of every role execute commands.     *)
InitAccess ==
    /\ variant = "index" /\ proc = "running" /\ sock = 0
    /\ envPhone = <<>> /\ fsFaults = FALSE
    /\ hs = [h \in Handles |-> FreeHandle]
    /\ session = "none"
    /\ qrRetries = 0
    /\ connectionAttempts = 0
    /\ timers = [k \in TimerKinds |-> 0]
    /\ pairing = [x \in PairRefs |-> 0]
    /\ pairingDelay = 0
    /\ last = NoLast
    /\ visibility = defaultVisibility
    /\ ToolsStart

(* CommandManager.execute: a sender who is not the owner may be rate       *)
(* limited; then the access check; then the handler.                       *)
execute(sender, commandName, arg, limited) ==
    IF sender # "owner" /\ limited
    THEN /\ last' = [Note("ratelimited") EXCEPT !.cmd = commandName, !.sender = sender]
         /\ UNCHANGED <<toolVars, visibility, variant, envPhone, fsFaults, proc, sock, hs, session,
                        qrRetries, connectionAttempts, timers, pairing, pairingDelay>>
    ELSE /\ visibility' = IF canAccessCommand(sender, commandName)
                          THEN handler(commandName, arg) ELSE visibility
         /\ last' = [Note("execute") EXCEPT
                       !.cmd = commandName, !.sender = sender,
                       !.pub = isPublic(commandName),
                       !.granted = canAccessCommand(sender, commandName)]
         /\ UNCHANGED <<toolVars, variant, envPhone, fsFaults, proc, sock, hs, session,
                        qrRetries, connectionAttempts, timers, pairing, pairingDelay>>

NextAccess ==
    \E sender \in Roles, commandName \in CommandNames, arg \in CommandArgs,
       limited \in BOOLEAN : execute(sender, commandName, arg, limited)

SpecAccess == InitAccess /\ [][NextAccess]_vars

----------------------------------------------------------------------------
(* The command tools on their own.  The fields of the controller stay as   *)
(* they are.                                                               *)
controllerVars == <<variant, envPhone, fsFaults, proc, sock, hs, session, qrRetries,
                    connectionAttempts, timers, pairing, pairingDelay>>

InitTools ==
    /\ variant = "index" /\ proc = "running" /\ sock = 0
    /\ envPhone = <<>>
    /\ hs = [h \in Handles |-> FreeHandle]
    /\ session = "none"
    /\ qrRetries = 0
    /\ connectionAttempts = 0
    /\ timers = [k \in TimerKinds |-> 0]
    /\ pairing = [x \in PairRefs |-> 0]
    /\ pairingDelay = 0
    /\ last = NoLast
    /\ visibility = defaultVisibility
    /\ ToolsStart

(* The handler of importcmd with a name: refused when the table has the    *)
(* lower-cased name (last.by "exists"); with a URL the import is made      *)
(* ("url"); without one the pending import is stored and its clean-up is   *)
(* scheduled in 5 minutes ("pending").                                     *)
ImportCmd(sender, raw, url, commandCode) ==
    LET commandName == toLowerCase(raw) IN
    /\ IF has(commandName)
       THEN /\ last' = [Note("importcmd") EXCEPT !.name = raw, !.by = "exists"]
            /\ UNCHANGED toolVars
       ELSE IF url
       THEN /\ commandCode.src = "url"
            /\ \E r \in importCommand(commandCode, commandName) :
                 /\ r.tempFiles <= MaxTemp
                 /\ registered' = r.registered
                 /\ importedCommands' = r.importedCommands
                 /\ tempFiles' = r.tempFiles
                 /\ last' = [Note("importcmd") EXCEPT !.name = raw, !.by = "url",
                                                      !.ok = r.success, !.err = r.thrown]
            /\ UNCHANGED <<pendingImports, cleanups, rateLimit, admitted, now>>
       ELSE LET timer == [sender |-> sender, due |-> now + pendingTtl] IN
            /\ Cardinality(cleanups \cup {timer}) <= MaxCleanups
            /\ pendingImports' = [pendingImports EXCEPT ![sender] =
                                    [commandName |-> commandName, timestamp |-> now]]
            /\ cleanups' = cleanups \cup {timer}
            /\ last' = [Note("importcmd") EXCEPT !.name = raw, !.by = "pending"]
            /\ UNCHANGED <<registered, importedCommands, tempFiles, rateLimit,
                           admitted, now>>
    /\ UNCHANGED <<visibility, controllerVars>>

(* A call of dynamicImporter.importCommand with code or a URL *)
ImportCommand(commandCode, commandName) ==
    /\ \E r \in importCommand(commandCode, commandName) :
         /\ r.tempFiles <= MaxTemp
         /\ registered' = r.registered
         /\ importedCommands' = r.importedCommands
         /\ tempFiles' = r.tempFiles
         /\ last' = [Note("importCommand") EXCEPT !.name = commandName,
                                                  !.ok = r.success, !.err = r.thrown]
    /\ UNCHANGED <<pendingImports, cleanups, rateLimit, admitted, now>>
    /\ UNCHANGED <<visibility, controllerVars>>

(* cmdlist remove <name>: dynamicImporter.removeImportedCommand *)
RemoveImportedCommand(commandName) ==
    /\ LET r == removeImportedCommand(commandName) IN
         /\ registered' = r.registered
         /\ importedCommands' = r.importedCommands
         /\ last' = [Note("removeImportedCommand") EXCEPT !.name = commandName,
                                                          !.ok = r.removed]
    /\ UNCHANGED <<tempFiles, pendingImports, cleanups, rateLimit, admitted, now>>
    /\ UNCHANGED <<visibility, controllerVars>>

(* importcmd with a URL, importCommand and removeImportedCommand, with and  *)
(* without file-system errors.                                             *)
InitImport == InitTools /\ fsFaults \in BOOLEAN

NextImport ==
    \/ \E sender \in Senders, raw \in RawNames :
          \E commandCode \in { c \in Codes : c.src = "url" } :
             ImportCmd(sender, raw, TRUE, commandCode)
    \/ \E commandCode \in Codes, raw \in RawNames :
          ImportCommand(commandCode, toLowerCase(raw))
    \/ \E raw \in RawNames : RemoveImportedCommand(toLowerCase(raw))

SpecImport == InitImport /\ [][NextImport]_vars

(* The clean-up timer of importcmd fires, at its time or later *)
ExpireCleanup(timer) ==
    /\ timer \in cleanups /\ now >= timer.due
    /\ cleanups' = cleanups \ {timer}
    /\ pendingImports' = [pendingImports EXCEPT ![timer.sender] = NoPending]
    /\ last' = [Note("expire") EXCEPT !.ok = (pendingImports[timer.sender] # NoPending)]
    /\ UNCHANGED <<registered, importedCommands, tempFiles, rateLimit, admitted, now>>
    /\ UNCHANGED <<visibility, controllerVars>>

(* A minute passes *)
Tick ==
    /\ now < MaxTime
    /\ now' = now + 1
    /\ last' = NoLast
    /\ UNCHANGED <<registered, importedCommands, tempFiles, pendingImports, cleanups,
                   rateLimit, admitted>>
    /\ UNCHANGED <<visibility, controllerVars>>

(* importcmd without a URL, the clean-up timers and the clock *)
InitPending == InitTools /\ fsFaults = FALSE

NextPending ==
    \/ \E sender \in Senders, raw \in RawNames :
          ImportCmd(sender, raw, FALSE, CHOOSE c \in Codes : TRUE)
    \/ \E sender \in Senders, due \in 0..(MaxTime + pendingTtl) :
          ExpireCleanup([sender |-> sender, due |-> due])
    \/ Tick

SpecPending == InitPending /\ [][NextPending]_vars

(* An isRateLimited whose count never reaches the limit *)
isRateLimited_neverFull(userId) ==
    [entry |-> [count |-> 1, resetTime |-> now + RATE_LIMIT_WINDOW], limited |-> FALSE]

(* CommandManager.isRateLimited: the entry of the user afterwards and the  *)
(* value returned.                                                         *)
isRateLimited(userId) ==
    LET userLimit == IF rateLimit[userId] = NoLimit
                     THEN [count |-> 0, resetTime |-> now + RATE_LIMIT_WINDOW]
                     ELSE rateLimit[userId]
    IN IF now > userLimit.resetTime
       THEN [entry |-> [count |-> 1, resetTime |-> now + RATE_LIMIT_WINDOW],
             limited |-> FALSE]
       ELSE IF userLimit.count >= RATE_LIMIT_MAX
       THEN [entry |-> rateLimit[userId], limited |-> TRUE]
       ELSE [entry |-> [userLimit EXCEPT !.count = @ + 1], limited |-> FALSE]

(* execute for a sender who is not the owner, up to the rate-limit check:  *)
(* last.ok is the value isRateLimited returned.                            *)
ExecuteRateCheck(userId) ==
    /\ LET r == isRateLimited(userId) IN
         /\ rateLimit' = [rateLimit EXCEPT ![userId] = r.entry]
         /\ admitted' = IF r.limited THEN admitted
                        ELSE [admitted EXCEPT ![userId] = Append(@, now)]
         /\ last' = [Note("isRateLimited") EXCEPT !.sender = userId, !.ok = r.limited]
    /\ UNCHANGED <<registered, importedCommands, tempFiles, pendingImports, cleanups, now>>
    /\ UNCHANGED <<visibility, controllerVars>>

InitRate == InitTools /\ fsFaults = FALSE

NextRate ==
    \/ \E userId \in Users : ExecuteRateCheck(userId)
    \/ Tick

SpecRate == InitRate /\ [][NextRate]_vars

(* visibilityManager on its own: makePublic, makePrivate and reset in any  *)
(* order, on the names of the commands.                                    *)
(* the value makePrivate returns *)
makePrivateReturns(commandName) == commandName \notin defaultPublicCommands

isPrivate(commandName, PRIVATE_MODE) ==
    \/ commandName \in visibility.privateCommands
    \/ (commandName \notin visibility.publicCommands /\ PRIVATE_MODE)

getVisibilityStatus(commandName, PRIVATE_MODE) ==
    IF commandName \in visibility.publicCommands THEN "public"
    ELSE IF commandName \in visibility.privateCommands THEN "private"
    ELSE IF PRIVATE_MODE THEN "private" ELSE "public"

MakePublic(commandName) ==
    /\ visibility' = makePublic(commandName)
    /\ last' = [Note("makePublic") EXCEPT !.cmd = commandName, !.ok = TRUE]
    /\ UNCHANGED <<toolVars, controllerVars>>

MakePrivate(commandName) ==
    /\ visibility' = makePrivate(commandName)
    /\ last' = [Note("makePrivate") EXCEPT !.cmd = commandName,
                                           !.ok = makePrivateReturns(commandName)]
    /\ UNCHANGED <<toolVars, controllerVars>>

Reset ==
    /\ visibility' = defaultVisibility
    /\ last' = Note("reset")
    /\ UNCHANGED <<toolVars, controllerVars>>

InitVisibility == InitTools /\ fsFaults = FALSE

NextVisibility ==
    \/ \E commandName \in CommandNames : MakePublic(commandName)
    \/ \E commandName \in CommandNames : MakePrivate(commandName)
    \/ Reset

SpecVisibility == InitVisibility /\ [][NextVisibility]_vars

(* The bot started with an empty session folder *)
InitFresh ==
    /\ Init
    /\ session = "none"

SpecFresh == InitFresh /\ [][Next]_vars

----------------------------------------------------------------------------
(* ConnectionState of the controller, read off this.sock: Idle before the  *)
(* first socket; Connecting, AwaitingPairing or Open with the state of the *)
(* current socket; once the current socket has closed, ClosedRetryable     *)
(* while a reconnect is scheduled and ClosedTerminal when none is.         *)
ReconnectTimers == timers["reconnect"] + timers["fresh"] + timers["restart"]

ConnectionState ==
    IF sock = 0 THEN "Idle"
    ELSE IF sock = Dead
    THEN IF ReconnectTimers > 0 THEN "ClosedRetryable" ELSE "ClosedTerminal"
    ELSE IF hs[sock].st = "connecting" THEN "Connecting"
    ELSE IF hs[sock].st = "open" THEN "Open"
    ELSE "AwaitingPairing"

TypeOK ==
    /\ variant \in Variants
    /\ proc \in {"running", "exited"}
    /\ sock \in {0, Dead} \cup Handles
    /\ sock \in Handles => Live(sock)
    /\ \A h \in Handles : hs[h].st \in {"free", "connecting", "pairing", "coded", "open"}
    /\ session \in Sessions
    /\ qrRetries \in 0..maxQrRetries
    /\ connectionAttempts \in 0..maxConnectionAttempts
    /\ LiveCount <= MaxSockets
    /\ \A k \in TimerKinds : timers[k] \in 0..MaxLoad
    /\ \A x \in PairRefs : pairing[x] \in 0..MaxLoad
    /\ pairingDelay \in 0..MaxLoad
    /\ LiveCount + BagSize(timers) + BagSize(pairing) + pairingDelay <= MaxLoad

----------------------------------------------------------------------------
(* C1: in every reachable state at most one reconnect timer and at most    *)
(* one pairing-retry timer are outstanding.                                *)
C1_AtMostOneTimerPerPurpose ==
    /\ ReconnectTimers <= 1
    /\ timers["pairing"] <= 1

(* C2: a disconnect with the logged-out status code schedules no timer and *)
(* starts no connection or pairing request, whatever the reason text; when *)
(* it closes the current socket and no reconnect was pending, the          *)
(* controller is in ClosedTerminal.                                        *)
LoggedOutStep == last'.op = "close" /\ last'.lo

C2_LoggedOutIsTerminal ==
    [][LoggedOutStep =>
        /\ timers' = timers
        /\ pairingDelay' = pairingDelay
        /\ BagSize(pairing') = BagSize(pairing)
        /\ \A h \in Handles : Live(h)' => Live(h)
        /\ (sock' = Dead /\ ReconnectTimers = 0) => ConnectionState' = "ClosedTerminal"
      ]_vars

(* C2 witness: a logged-out disconnect whose reason text carries a marker  *)
(* has closed the current socket and the controller is in ClosedTerminal.  *)
C2_Witness ==
    /\ last.op = "close" /\ last.lo /\ last.mk # {}
    /\ ConnectionState = "ClosedTerminal"

(* C3: at most one transport handle is live at any time. *)
C3_AtMostOneLiveHandle == LiveCount <= 1

(* C4: every transient-network disconnect (connection-reset or timeout     *)
(* marker, not logged out) increments connectionAttempts by exactly one.   *)
TransientNetworkStep ==
    last'.op = "close" /\ ~last'.lo /\ last'.mk = {"network"}

C4_TransientIncrementsOnce ==
    [][TransientNetworkStep => connectionAttempts' = connectionAttempts + 1]_vars

(* C5: on every transition into Open both retry counters are 0 right       *)
(* after the transition, whatever they were before.                        *)
C5_OpenResetsCounters ==
    [][last'.op = "open" => (qrRetries' = 0 /\ connectionAttempts' = 0)]_vars

(* C5 witness: an open has been handled when a counter was not 0 *)
C5_Witness ==
    /\ last.op = "open" /\ last.pre
    /\ qrRetries = 0 /\ connectionAttempts = 0

(* C6: an authentication-failure disconnect (not logged out) of an open    *)
(* socket clears the persisted session, schedules a reconnect after a      *)
(* fixed short delay and does not increment connectionAttempts.            *)
AuthFailureStep ==
    last'.op = "close" /\ ~last'.lo /\ "auth" \in last'.mk /\ last'.pre

GenericStep == last'.op = "close" /\ ~last'.lo /\ last'.mk = {}

C7_MaxAttemptsClearsSession ==
    [][GenericStep =>
        /\ \A h \in Handles : Live(h)' => Live(h)
        /\ IF connectionAttempts + 1 >= maxConnectionAttempts
           THEN /\ last'.clr /\ session' = "none"
                /\ connectionAttempts' = 0 /\ qrRetries' = 0
           ELSE /\ ~last'.clr /\ session' = session
                /\ connectionAttempts' = connectionAttempts + 1
      ]_vars

(* C7 witness: the generic disconnect that reached the maximum has cleared *)
(* the session and both counters.                                          *)
C7_Witness ==
    /\ last.op = "close" /\ ~last.lo /\ last.mk = {} /\ last.clr
    /\ session = "none" /\ connectionAttempts = 0 /\ qrRetries = 0

(* C10: generatePairingCode is never started while an earlier pairing      *)
(* request is in flight or a pairing-retry timer is pending.               *)
PairingStartStep ==
    /\ last'.op \in {"nophone", "limit", "invalid", "nosock", "request", "wait"}
    /\ pairingDelay' >= pairingDelay

C10_NoOverlappingPairing ==
    [][PairingStartStep =>
        BagSize(pairing) + pairingDelay + timers'["pairing"] = 0]_vars

NormalizedPhone ==
    IF variant = "index" THEN formatPhoneNumber_index(PHONE_NUMBER)
    ELSE formatPhoneNumber_index1(PHONE_NUMBER)

C11_FailuresNeverTerminate ==
    [][(proc = "running" /\ proc' = "exited") =>
          last'.op \in {"signal", "initfail"}]_vars

(* C12: connection-state events are handled one at a time: while the       *)
(* handler of a qr update is suspended at its awaited pairing request, no  *)
(* other connection-state event (close, open, qr) is handled.              *)
C12_EventsDoNotInterleave ==
    [][(last.op = "request" /\ last.by = "qr" /\ BagSize(pairing) > 0) =>
          ~(last'.op \in {"close", "open", "qr"} \/ last'.by = "qr")]_vars

C14_PairingFailureRetries ==
    [][ /\ (proc' = "running" /\ BagSize(pairing') < BagSize(pairing)
              /\ last'.op # "code") => last'.op \in {"retry", "giveup"}
        /\ last'.op = "retry" =>
              /\ qrRetries < maxQrRetries /\ qrRetries' = qrRetries
              /\ timers' = [timers EXCEPT !["pairing"] = @ + 1]
              /\ last'.delay = (IF 5000 * qrRetries < 15000
                                THEN 5000 * qrRetries ELSE 15000)
              /\ ~last'.clr /\ session' = session
        /\ last'.op = "giveup" =>
              /\ qrRetries >= maxQrRetries /\ qrRetries' = qrRetries
              /\ timers' = timers
              /\ last'.clr /\ session' = "none"
      ]_vars

(* C14 witness: the fourth request has failed and its retry waits for the  *)
(* capped delay.                                                           *)
C14_Witness ==
    /\ last.op = "retry" /\ qrRetries = 4 /\ last.delay = 15000
    /\ timers["pairing"] > 0

Subscriber == SubSeq(BodyDigits, 1, 9)

C16_PhoneNormalization ==
    last.op \in {"accepted", "rejected"} =>
        /\ PHONE_NUMBER \in { <<"0">> \o Subscriber, Subscriber, Prefix27 \o Subscriber } =>
              (last.op = "accepted" /\ last.phone = Prefix27 \o Subscriber)
        /\ PHONE_NUMBER = <<"1", "2", "3">> => last.op = "rejected"
        /\ last.op = "accepted" =>
              (Len(last.phone) = 11 /\ StartsWith(last.phone, Prefix27)
                 /\ \A i \in 1..Len(last.phone) : last.phone[i] \in Digits)

(* C17: when the normalized phone number is not 11 digits starting with    *)
(* 27, pairing aborts: requestPairingCode is never called with the         *)
(* malformed number, and the rejection schedules no pairing retry and no   *)
(* reconnect.                                                              *)
C17_MalformedNeverSubmitted ==
    [][/\ (last'.op = "request" /\ BagSize(pairing') > BagSize(pairing)) =>
              validPhoneNumber_index(last'.phone)
       /\ (last'.op = "invalid" /\ qrRetries' = qrRetries + 1) =>
              /\ pairing' = pairing
              /\ \A k \in TimerKinds : timers'[k] <= timers[k]]_vars

(* C18: on a shutdown signal every pending reconnect or pairing timer is   *)
(* gone and every transport handle is released without the retry path      *)
(* being entered; after the signal no connection, no reconnect and no      *)
(* pairing request is ever started.                                        *)
C18_ShutdownStopsEverything ==
    [][/\ (proc = "running" /\ proc' = "exited" /\ last'.op = "signal") =>
              /\ \A k \in TimerKinds : timers'[k] = 0
              /\ BagSize(pairing') = 0 /\ pairingDelay' = 0
              /\ sock' = 0 /\ \A h \in Handles : hs'[h].st = "free"
       /\ proc = "exited" =>
              /\ proc' = "exited"
              /\ UNCHANGED <<sock, hs, timers, pairing, pairingDelay,
                             connectionAttempts, qrRetries, session>>]_vars

C18_Witness ==
    /\ proc = "exited" /\ last.op = "signal" /\ last.pre
    /\ BagSize(timers) = 0 /\ LiveCount = 0

(* C19: in every reachable state the persisted session is not older than   *)
(* the credentials an open transport handle runs on: every credentials     *)
(* update is persisted and no session clear leaves an open handle on       *)
(* credentials that are no longer in the session folder.                   *)
C19_PersistedNotOlder ==
    /\ \A h \in Handles : hs[h].st = "open" => session = "paired"
    /\ last.clr => \A h \in Handles : hs[h].st # "open"

(* C20: calling clearSessionData twice in a row leaves the session folder  *)
(* without files after each call (when no file operation fails) and lets   *)
(* no error out of either call; clearing a folder that is already empty or *)
(* missing changes nothing.                                                *)
C20_ClearIdempotent ==
    last.op \in {"clear", "clearAgain"} =>
        /\ ~fsFaults => session.files = {}
        /\ ~last.err
        /\ (last.op = "clearAgain" /\ ~fsFaults) => (last.pre /\ last.same)
        /\ last.pre => last.same

C20_Witness ==
    /\ last.op = "clearAgain" /\ ~fsFaults /\ last.pre /\ last.same
    /\ session.exists /\ session.files = {} /\ session.dirs # {}

(* C21: a failed clear is retried and, failing again, is fatal: after a    *)
(* step that called clearSessionData the controller has not scheduled a    *)
(* reconnect or a pairing attempt while credentials are still in the       *)
(* session folder.                                                         *)
C21_NoProceedAfterFailedClear ==
    [][(last'.clr /\ session' # "none") =>
          \A k \in TimerKinds : timers'[k] <= timers[k]]_vars

(* C22: the load of the session folder at the start of a connection        *)
(* attempt never sees a partially deleted folder: at every load a clear    *)
(* has removed all the persisted credentials or none of them.              *)
LoadStep == \E h \in Handles : hs[h].st = "free" /\ hs'[h].st = "connecting"

C22_LoadNeverSeesPartialClear ==
    [][LoadStep => session # "partial"]_vars

(* C23: in every reachable state both retry counters are within their      *)
(* bounds: 0 <= qrRetries <= maxQrRetries and                              *)
(* 0 <= connectionAttempts <= maxConnectionAttempts.                       *)
C23_CountersWithinBounds ==
    /\ 0 <= qrRetries /\ qrRetries <= maxQrRetries
    /\ 0 <= connectionAttempts /\ connectionAttempts <= maxConnectionAttempts

C23_Witness ==
    /\ qrRetries = maxQrRetries
    /\ connectionAttempts = maxConnectionAttempts - 1

(* C24: every disconnect whose reason text has an auth/connection-failure  *)
(* marker or a transient-network marker, and whose status code is not      *)
(* logged-out, clears the session, sets both retry counters to 0 and       *)
(* schedules one reconnect after a fixed delay that does not depend on the *)
(* attempt count.                                                          *)
MarkedStep == last'.op = "close" /\ ~last'.lo /\ last'.mk # {}

C25_FailuresEscalate ==
    ( /\ []<><<MarkedStep>>_vars
      /\ <>[][last'.op # "open" /\ ~GenericStep /\ ~LoggedOutStep]_vars )
    => []<>last.clr

(* C26: of every batch delivered on an open connection, every message not  *)
(* sent by the bot itself is passed to processMessage, those that follow a *)
(* message whose processing failed included, and no message of the bot     *)
(* itself is passed.                                                       *)
C26_EveryForeignMessageDispatched ==
    last.op = "messages" => (~last.skipped /\ ~last.own)

(* C27: every disconnect that is not logged-out leads to a new connection  *)
(* attempt.  Its handler schedules one reconnect, so the controller is not *)
(* left closed with nothing scheduled; and with the timers firing, a       *)
(* closed controller with a reconnect pending is connecting again later,   *)
(* unless the process has exited in between.                               *)
RetryableCloseStep == last'.op = "close" /\ ~last'.lo

(* A reconnect timer has fired *)
ReconnectFiredStep == proc' = "running" /\ ReconnectTimers' < ReconnectTimers

(* The only reconnects pending are 'fresh' ones and the load bound of the  *)
(* model (MaxLoad) leaves no room for the pairing timer they set.          *)
FreshHeldBack ==
    /\ timers["reconnect"] = 0 /\ timers["restart"] = 0
    /\ ~Room(timers, pairing, pairingDelay)

C27_RetryableCloseReconnects ==
    /\ [][RetryableCloseStep =>
             /\ ReconnectTimers' = ReconnectTimers + 1
             /\ (sock' = Dead => ConnectionState' = "ClosedRetryable")]_vars
    /\ [][ReconnectFiredStep =>
             /\ ReconnectTimers' = ReconnectTimers - 1
             /\ ConnectionState' = "Connecting"]_vars
    /\ (ConnectionState = "ClosedRetryable" /\ proc = "running")
          ~> (ConnectionState = "Connecting" \/ proc = "exited" \/ FreshHeldBack)

(* C27 witness: two drops were counted, every reconnect timer has fired    *)
(* and the one socket there is is connecting.                              *)
C27_Witness ==
    /\ ConnectionState = "Connecting" /\ proc = "running"
    /\ connectionAttempts = 2 /\ LiveCount = 1 /\ BagSize(timers) = 0

(* C28: a command marked public is accessible to all users: for every      *)
(* sender and every command for which visibilityManager.isPublic holds,    *)
(* canAccessCommand grants access whatever role the command requires.      *)
C28_PublicBypassesRoles ==
    (last.op = "execute" /\ last.pub) => last.granted

(* C29: on a generic drop connectionAttempts is incremented first and the  *)
(* reconnect delay is computed from the incremented count: the delay of    *)
(* the k-th consecutive generic disconnect is min(5000 + k * 2000, 30000). *)
C29_DelayFromIncrementedCount ==
    [][GenericStep =>
          last'.delay = Min(5000 + ((connectionAttempts + 1) * 2000), 30000)]_vars

(* C29 as the code has it: the delay is computed from the count before the *)
(* increment, so the k-th consecutive generic disconnect waits             *)
(* min(5000 + (k - 1) * 2000, 30000) ms, the first one 5000 ms; the count  *)
(* is incremented afterwards (and set to 0 when it reaches the maximum).   *)
C29_DelayFromCountBeforeIncrement ==
    [][GenericStep =>
          /\ last'.delay = Min(5000 + (connectionAttempts * 2000), 30000)
          /\ connectionAttempts' =
                (IF connectionAttempts + 1 >= maxConnectionAttempts THEN 0
                 ELSE connectionAttempts + 1)]_vars

(* C29 witness: the third generic disconnect in a row has been handled:    *)
(* the count is 3 and the delay is that of count 2.                        *)
C29_Witness ==
    /\ last.op = "close" /\ ~last.lo /\ last.mk = {}
    /\ connectionAttempts = 3 /\ last.delay = 9000

(* C30: a disconnect with the logged-out status code leaves the persisted  *)
(* session and both retry counters as they were, also when its reason text *)
(* has an auth/connection-failure or network marker: the logged-out rule   *)
(* comes before the marker rules.                                          *)
C30_LoggedOutChangesNothing ==
    [][LoggedOutStep =>
          /\ session' = session /\ ~last'.clr
          /\ qrRetries' = qrRetries
          /\ connectionAttempts' = connectionAttempts]_vars

(* C30 witness: with three drops counted and a paired session, a           *)
(* logged-out disconnect whose reason text has a marker was handled and    *)
(* the session and the count are still there.                              *)
C30_Witness ==
    /\ last.op = "close" /\ last.lo /\ last.mk # {}
    /\ session = "paired" /\ connectionAttempts = 3

(* C31: no connectToWhatsApp starts while the controller is Open: once the *)
(* current socket is open, no pending timer fires and creates a second     *)
(* socket next to the connected one.                                       *)
C31_NoConnectWhileOpen ==
    [][LoadStep => ConnectionState # "Open"]_vars

(* C32: a pairing attempt that ends before any request is issued (no       *)
(* phone number, a number that fails validation, or no socket) leaves      *)
(* qrRetries as it was.                                                    *)
AbortedPairingStep == last'.op \in {"nophone", "invalid", "nosock"}

C32_AbortedPairingNotCounted ==
    [][AbortedPairingStep => qrRetries' = qrRetries]_vars

(* C33: importing never replaces a registered command: when the name under *)
(* which importcmd would register the command (the sanitized name) is in   *)
(* the command table, the import is refused and the table is as it was.    *)
C33_ImportNeverReplaces ==
    [][(last'.op = "importcmd" /\ has(sanitizedName(last'.name)))
          => (~last'.ok /\ registered' = registered)]_vars

(* C34: the default public commands (ping, menu) are public in every       *)
(* reachable state of the visibility manager, and makePrivate on one of    *)
(* them returns false and leaves both sets as they were.                   *)
C34_DefaultsStayPublic ==
    /\ [](\A c \in defaultPublicCommands : isPublic(c))
    /\ [][(last'.op = "makePrivate" /\ last'.cmd \in defaultPublicCommands)
             => (~last'.ok /\ visibility' = visibility)]_vars

(* C34 witness: after other commands were made public and private,         *)
(* makePrivate was called on ping and returned false.                      *)
C34_Witness ==
    /\ last.op = "makePrivate" /\ last.cmd = "ping" /\ ~last.ok
    /\ visibility.privateCommands # {}
    /\ visibility.publicCommands # defaultPublicCommands

(* C35: the public set and the private set are disjoint, and for a command *)
(* in one of them getVisibilityStatus, isPublic and isPrivate agree,       *)
(* whatever PRIVATE_MODE is.                                               *)
C35_VisibilitySetsDisjoint ==
    /\ visibility.publicCommands \cap visibility.privateCommands = {}
    /\ \A c \in visibility.publicCommands \cup visibility.privateCommands :
         \A PRIVATE_MODE \in BOOLEAN :
            /\ (getVisibilityStatus(c, PRIVATE_MODE) = "public") <=> isPublic(c)
            /\ (getVisibilityStatus(c, PRIVATE_MODE) = "private")
                  <=> isPrivate(c, PRIVATE_MODE)
            /\ isPublic(c) <=> ~isPrivate(c, PRIVATE_MODE)

(* C35 witness: a command that was private has been made public *)
C35_Witness ==
    /\ last.op = "makePublic" /\ last.cmd = "status"
    /\ "ope" \in visibility.privateCommands
    /\ "status" \in visibility.publicCommands

(* C36: for every user who is not the owner, at most RATE_LIMIT_MAX calls  *)
(* pass the rate-limit check within one window (from the first call of     *)
(* the window to its resetTime); a rejected call leaves the user's count   *)
(* and resetTime as they were; a call after the resetTime is admitted.     *)
AdmittedIn(userId, from, to) ==
    Len(SelectSeq(admitted[userId], LAMBDA t : from <= t /\ t <= to))

RateCheckStep == last'.op = "isRateLimited"

C36_RateLimitPerWindow ==
    /\ [](\A u \in Users : rateLimit[u] # NoLimit =>
             AdmittedIn(u, rateLimit[u].resetTime - RATE_LIMIT_WINDOW,
                        rateLimit[u].resetTime) <= RATE_LIMIT_MAX)
    /\ [][(RateCheckStep /\ last'.ok) => (rateLimit' = rateLimit /\ admitted' = admitted)]_vars
    /\ [][\A u \in Users :
            (RateCheckStep /\ last'.sender = u /\ rateLimit[u] # NoLimit
               /\ now > rateLimit[u].resetTime)
            => (~last'.ok /\ rateLimit'[u].count = 1
                  /\ rateLimit'[u].resetTime = now + RATE_LIMIT_WINDOW)]_vars

(* C36 witness: a user whose window was full (RATE_LIMIT_MAX calls         *)
(* admitted at time 0) is admitted again after the window expired.         *)
C36_Witness ==
    \E u \in Users :
       /\ last.op = "isRateLimited" /\ last.sender = u /\ ~last.ok
       /\ AdmittedIn(u, 0, 0) = RATE_LIMIT_MAX
       /\ rateLimit[u].count = 1
       /\ rateLimit[u].resetTime = now + RATE_LIMIT_WINDOW
       /\ now > RATE_LIMIT_WINDOW

(* C37: a pending manual import stays for 5 minutes from its request: no   *)
(* expiry timer removes the entry of a sender before 5 minutes have        *)
(* passed since that entry was stored, also when the timer is the one of   *)
(* an earlier request of the same sender.                                  *)
C37_PendingImportKeptFiveMinutes ==
    [][\A s \in Senders :
          (last'.op = "expire" /\ pendingImports[s] # NoPending
             /\ pendingImports'[s] = NoPending)
          => now >= pendingImports[s].timestamp + pendingTtl]_vars

(* C38: every name in importedCommands is registered in the command table, *)
(* and removeImportedCommand removes a command only if it was imported: for *)
(* an imported name it returns true and takes the name out of both, for    *)
(* any other name it returns false and changes nothing.                    *)
RemoveStep == last'.op = "removeImportedCommand"

C38_ImportedAreRegistered ==
    /\ [](\A n \in importedCommands : has(n))
    /\ [][RemoveStep =>
            IF last'.name \in importedCommands
            THEN /\ last'.ok
                 /\ importedCommands' = importedCommands \ {last'.name}
                 /\ registered' = [registered EXCEPT ![last'.name] = "none"]
            ELSE /\ ~last'.ok
                 /\ importedCommands' = importedCommands
                 /\ registered' = registered]_vars

(* C38 witness: of two imported commands one has been removed; the other   *)
(* is still imported and registered.                                       *)
C38_Witness ==
    /\ last.op = "removeImportedCommand" /\ last.ok
    /\ last.name = <<"c", "a", "l", "c">>
    /\ ~has(<<"c", "a", "l", "c">>)
    /\ importedCommands = { <<"c", "4">> }
    /\ registered[<<"c", "4">>] = "code2"

(* C39: a failing importCommand returns success false without throwing,    *)
(* registers no command, adds nothing to importedCommands and leaves no    *)
(* temp file; a successful one leaves no temp file either.                 *)
ImportStep ==
    \/ last'.op = "importCommand"
    \/ last'.op = "importcmd" /\ last'.by = "url"

C39_FailedImportLeavesNothing ==
    [][ImportStep =>
          /\ ~last'.err
          /\ tempFiles' = tempFiles
          /\ ~last'.ok => (registered' = registered
                             /\ importedCommands' = importedCommands)]_vars

====
